---- MODULE Spec2Model ----
(***************************************************************************)
(* DOGEPAL: the rule-based SpendingRecommender (models/spending_           *)
(* recommender.py), alone and shared by concurrent callers of predict, and *)
(* the generate_recommendations and get_recommendations endpoints          *)
(* (backend/app/api/v1/endpoints/recommendations.py) over the spending /   *)
(* recommendation store.                                                   *)
(*                                                                         *)
(* Python values are records.  A dict is a record of its keys; every other *)
(* Python value carries a "pytype" field (None, list, int).  Numbers are   *)
(* exact rationals [n, d] in lowest terms with d > 0, so that the          *)
(* comparisons of the rules (z > 2.0, amount > 1.5 x mean, >= 0.8) are     *)
(* decided exactly; binary floating-point rounding error is not modelled.  *)
(***************************************************************************)
EXTENDS Integers, Sequences, FiniteSets, TLC

VARIABLES call, spending, recommendation, recommender, threads, db, requests,
          sqlite_sequence

vars == <<call, spending, recommendation, recommender, threads, db, requests,
          sqlite_sequence>>

\* Longest batch handed to predict.
MaxLen == 2
\* Most rows the spending table holds.
MaxSpending == 2
\* Most requests holding a get_db session at once.
MaxRequests == 2
\* Most rows ever inserted into the recommendation table.
MaxRecommendations == 1

-----------------------------------------------------------------------------
(* Exact arithmetic standing for Python's float arithmetic.                *)

Abs(x) == IF x < 0 THEN -x ELSE x

RECURSIVE GCD(_, _)
GCD(a, b) == IF b = 0 THEN a ELSE GCD(b, a % b)

\* The rational n/d (d > 0) in lowest terms.
R(n, d) == LET g == GCD(Abs(n), d) IN [n |-> n \div g, d |-> d \div g]

RatAdd(x, y) == R(x.n * y.d + y.n * x.d, x.d * y.d)
RatSub(x, y) == R(x.n * y.d - y.n * x.d, x.d * y.d)
RatMul(x, y) == R(x.n * y.n, x.d * y.d)
\* x / y for y # 0.
RatDiv(x, y) == IF y.n < 0 THEN R(-(x.n * y.d), x.d * (-y.n))
                ELSE R(x.n * y.d, x.d * y.n)
RatLT(x, y) == x.n * y.d < y.n * x.d
RatLE(x, y) == x.n * y.d <= y.n * x.d
RatGT(x, y) == RatLT(y, x)
RatGE(x, y) == RatLE(y, x)
RatMin(x, y) == IF RatLE(x, y) THEN x ELSE y

\* n/d rounded to the nearest integer, ties to even (Python 3 round()).
RoundHalfEven(n, d) ==
    LET q == n \div d
        r == n % d
    IN  IF 2 * r < d THEN q
        ELSE IF 2 * r > d THEN q + 1
        ELSE IF q % 2 = 0 THEN q ELSE q + 1

\* round(x, 2)
Round2(x) == R(RoundHalfEven(x.n * 100, x.d), 100)

-----------------------------------------------------------------------------
(* Python values.                                                          *)

None == [pytype |-> "NoneType"]
PyList(s) == [pytype |-> "list", items |-> s]
PyInt(i) == [pytype |-> "int", value |-> i]

\* isinstance(v, dict) / isinstance(v, list)
IsDict(v) == "pytype" \notin DOMAIN v
IsList(v) == ~IsDict(v) /\ v.pytype = "list"

\* bool(v): None, 0, [] and {} are falsy.
Truthy(v) ==
    IF IsDict(v) THEN DOMAIN v # {}
    ELSE CASE v.pytype = "NoneType" -> FALSE
           [] v.pytype = "list" -> v.items # <<>>
           [] v.pytype = "int" -> v.value # 0
           [] OTHER -> TRUE

\* d.get(k, default)
Get(d, k, default) == IF k \in DOMAIN d THEN d[k] ELSE default

\* str.lower() on the strings the model uses.
Lower(s) ==
    CASE s = "Services" -> "services"
      [] s = "Office Supplies" -> "office supplies"
      [] s = "HR" -> "hr"
      [] s = "Technology" -> "technology"
      [] OTHER -> s

-----------------------------------------------------------------------------
(* SpendingRecommender                                                     *)

\* SpendingRecommender.__init__: the fields of the instance.
__init__(confidence_threshold) ==
    [confidence_threshold |-> confidence_threshold,
     categories |-> <<"Software", "Hardware", "Services", "Office Supplies",
                      "Training">>,
     vendors |-> <<"Acme Inc.", "Tech Solutions", "Office Supplies Co",
                   "City Services", "Global Tech">>,
     departments |-> <<"Technology", "HR", "Finance", "Operations",
                       "Public Works">>]

\* An exception raised by a division by zero.
ZeroDivisionError == [pytype |-> "ZeroDivisionError"]

\* _calculate_z_score with the guard on the wrong operand: divides by a zero
\* standard deviation.
_calculate_z_score_mean_guard(value, mean, std_dev) ==
    IF mean = R(0, 1) THEN R(0, 1)
    ELSE IF std_dev = R(0, 1) THEN ZeroDivisionError
    ELSE RatDiv(RatSub(value, mean), std_dev)

\* SpendingRecommender._calculate_z_score
_calculate_z_score(value, mean, std_dev) ==
    IF std_dev = R(0, 1) THEN R(0, 1)
    ELSE RatDiv(RatSub(value, mean), std_dev)

required_fields == {"amount", "category", "vendor", "department"}

dept_stats ==
    ("technology" :> [mean |-> 15000, std_dev |-> 5000]) @@
    ("hr" :> [mean |-> 8000, std_dev |-> 2000]) @@
    ("finance" :> [mean |-> 12000, std_dev |-> 4000]) @@
    ("public works" :> [mean |-> 25000, std_dev |-> 10000]) @@
    ("operations" :> [mean |-> 10000, std_dev |-> 3000])

dept_default == [mean |-> 10000, std_dev |-> 5000]

category_benchmarks ==
    ("office supplies" :> [mean |-> 800, savings_potential |-> R(15, 100)]) @@
    ("services" :> [mean |-> 3000, savings_potential |-> R(20, 100)]) @@
    ("hardware" :> [mean |-> 5000, savings_potential |-> R(12, 100)]) @@
    ("training" :> [mean |-> 2000, savings_potential |-> R(10, 100)]) @@
    ("other" :> [mean |-> 1500, savings_potential |-> R(5, 100)])

\* dept_stats.get(department.lower(), {'mean': 10000, 'std_dev': 5000})
dept_stat(department) == Get(dept_stats, Lower(department), dept_default)

\* category_benchmarks.get(category, category_benchmarks['other'])
cat_benchmark(category) ==
    Get(category_benchmarks, category, category_benchmarks["other"])

\* z_score taken as a distance from the mean, whichever the side.
z_score_abs(record) ==
    LET z == _calculate_z_score(record.amount,
                                R(dept_stat(record.department).mean, 1),
                                R(dept_stat(record.department).std_dev, 1))
    IN  R(Abs(z.n), z.d)

\* z_score = self._calculate_z_score(amount, dept_mean, dept_std)
z_score(record) ==
    _calculate_z_score(record.amount,
                       R(dept_stat(record.department).mean, 1),
                       R(dept_stat(record.department).std_dev, 1))

\* The confidence without its upper clamp.
anomaly_confidence_unclamped(z) == RatAdd(R(7, 10), RatMul(z, R(5, 100)))

\* The confidence clamped at 0.99.
anomaly_confidence_cap99(z) ==
    RatMin(R(99, 100), RatAdd(R(7, 10), RatMul(z, R(5, 100))))

\* 'confidence_score': min(0.9, 0.7 + (z_score * 0.05))
anomaly_confidence(z) == RatMin(R(9, 10), RatAdd(R(7, 10), RatMul(z, R(5, 100))))

\* The anomaly test with a non-strict comparison.
anomaly_trigger_ge(z) == RatGE(z, R(2, 1))

\* if z_score > 2.0
anomaly_trigger(z) == RatGT(z, R(2, 1))

\* The dictionary of Recommendation 1 (department spending anomaly).
spending_anomaly(record) ==
    [transaction_id |-> Get(record, "transaction_id", ""),
     recommendation_type |-> "spending_anomaly",
     title |-> "High Spending Anomaly Detected",
     potential_savings |-> Round2(RatMul(record.amount, R(25, 100))),
     confidence_score |-> anomaly_confidence(z_score(record)),
     priority |-> "high"]

\* The category test with a non-strict comparison.
cost_saving_trigger_ge(record) ==
    LET category == Lower(record.category) IN
    /\ category \in DOMAIN category_benchmarks
    /\ RatGE(record.amount, RatMul(R(cat_benchmark(category).mean, 1), R(15, 10)))

\* elif category in category_benchmarks and amount > cat_mean * 1.5
cost_saving_trigger(record) ==
    LET category == Lower(record.category) IN
    /\ category \in DOMAIN category_benchmarks
    /\ RatGT(record.amount, RatMul(R(cat_benchmark(category).mean, 1), R(15, 10)))

\* The dictionary of Recommendation 2 (category-specific optimization); the
\* category name interpolated into the title is left out.
cost_saving(record) ==
    LET category == Lower(record.category) IN
    [transaction_id |-> Get(record, "transaction_id", ""),
     recommendation_type |-> "cost_saving",
     title |-> "Potential Cost Optimization",
     potential_savings |->
         Round2(RatMul(record.amount, category_benchmarks[category].savings_potential)),
     confidence_score |-> R(8, 10),
     priority |-> "medium"]

\* _generate_recommendation with the two rules tried in the other order.
_generate_recommendation_cost_first(record) ==
    IF ~(required_fields \subseteq DOMAIN record) THEN None
    ELSE IF cost_saving_trigger(record) THEN cost_saving(record)
    ELSE IF anomaly_trigger(z_score(record)) THEN spending_anomaly(record)
    ELSE None

\* SpendingRecommender._generate_recommendation
_generate_recommendation(record) ==
    IF ~(required_fields \subseteq DOMAIN record) THEN None
    ELSE IF anomaly_trigger(z_score(record)) THEN spending_anomaly(record)
    ELSE IF cost_saving_trigger(record) THEN cost_saving(record)
    ELSE None

\* One turn of the loop of predict: the entry appended for `record`.
\* `rec[0]` on the dictionary _generate_recommendation returns raises
\* KeyError(0), which the except clause turns into None.
predict_one(record) ==
    IF ~IsDict(record) THEN None
    ELSE LET rec == _generate_recommendation(record) IN
         IF ~Truthy(rec) THEN None
         ELSE IF IsList(rec) THEN rec.items[1]
         ELSE None

\* One turn of the loop that also keeps the record on the instance
\* (`self._last = record`).
predict_turn_caching(self, recommendations, record) ==
    [self |-> [k \in DOMAIN self \cup {"_last"} |->
                  IF k = "_last" THEN record ELSE self[k]],
     record |-> record,
     recommendations |-> Append(recommendations, predict_one(record))]

\* One turn of the loop of predict as a step: the instance and the record as
\* the turn leaves them (it assigns to neither) and the local list after the
\* append.
predict_turn(self, recommendations, record) ==
    [self |-> self,
     record |-> record,
     recommendations |-> Append(recommendations, predict_one(record))]

\* The values the local `rec` takes at line 89, one per element of the batch
\* (None for an element that never reaches the call).
predict_recs(X) ==
    LET batch == IF IsList(X) THEN X.items ELSE <<X>> IN
    [i \in 1..Len(batch) |->
        IF IsDict(batch[i]) THEN _generate_recommendation(batch[i]) ELSE None]

\* predict leaving its loop at the first element that is not a dictionary
\* (`break` where the code has `continue`).
predict_stop_at_non_dict(X) ==
    IF ~Truthy(X) THEN PyList(<<>>)
    ELSE LET single_input == ~IsList(X)
             batch == IF single_input THEN <<X>> ELSE X.items
             bad == {i \in 1..Len(batch) : ~IsDict(batch[i])}
             last == IF bad = {} THEN Len(batch)
                     ELSE CHOOSE i \in bad : \A j \in bad : i <= j
             recommendations == [i \in 1..last |-> predict_one(batch[i])]
         IN  IF single_input THEN recommendations[1] ELSE PyList(recommendations)

\* predict answering None, not the empty list, for an empty input.
predict_none_on_empty(X) ==
    IF ~Truthy(X) THEN None
    ELSE LET single_input == ~IsList(X)
             batch == IF single_input THEN <<X>> ELSE X.items
             recommendations == [i \in 1..Len(batch) |-> predict_one(batch[i])]
         IN  IF single_input THEN recommendations[1] ELSE PyList(recommendations)

\* SpendingRecommender.predict
predict(X) ==
    IF ~Truthy(X) THEN PyList(<<>>)
    ELSE LET single_input == ~IsList(X)
             batch == IF single_input THEN <<X>> ELSE X.items
             recommendations == [i \in 1..Len(batch) |-> predict_one(batch[i])]
         IN  IF single_input THEN recommendations[1] ELSE PyList(recommendations)

\* SpendingRecommender.predict_proba: a list of one confidence is returned
\* as that number.
predict_proba(X) ==
    LET predictions == predict(X)
        preds == IF IsList(predictions) THEN predictions.items
                 ELSE <<predictions>>
        confidences == [i \in 1..Len(preds) |->
                           IF preds[i] = None THEN R(0, 1)
                           ELSE Get(preds[i], "confidence_score", R(0, 1))]
    IN  IF Len(confidences) = 1 THEN confidences[1] ELSE PyList(confidences)

-----------------------------------------------------------------------------
(* generate_recommendations endpoint                                       *)

\* calculate_zscore (module-level helper of the endpoint)
calculate_zscore(value, mean, std) ==
    IF std = R(0, 1) THEN R(0, 1)
    ELSE RatDiv(RatSub(value, mean), std)

\* Attributes of the mapped class Spending (backend/app/models/spending.py).
SpendingModel_attrs ==
    {"id", "amount", "category", "vendor", "description", "date",
     "department", "created_at", "updated_at", "recommendations"}

\* Attributes of the mapped class Recommendation.
RecommendationModel_attrs ==
    {"id", "spending_id", "recommendation_type", "title", "description",
     "potential_savings", "confidence_score", "explanation",
     "suggested_action", "status", "created_at", "spending"}

\* Member names of the enum RecommendationType (schemas/recommendation.py);
\* the handler reads RecommendationType.unknown before anything else.
RecommendationType_members ==
    {"COST_SAVING", "BUDGET_OPTIMIZATION", "VENDOR_CONSOLIDATION",
     "SPENDING_ANOMALY", "POLICY_VIOLATION"}

\* Attributes the comprehension building spending_data reads from each row
\* without a hasattr guard.
spending_data_reads ==
    {"id", "amount", "category", "vendor", "date", "department", "user_id",
     "project_name"}

\* Keyword arguments of RecommendationModel(...) and the class attributes the
\* existence check names.
new_rec_kwargs ==
    {"spending_id", "type", "title", "description", "confidence_score",
     "priority", "status", "explanation", "calculation", "factors",
     "suggested_action", "created_at", "updated_at"}

\* str(s.id)
Str(i) == CASE i = 1 -> "1" [] i = 2 -> "2" [] i = 3 -> "3" [] i = 4 -> "4"
            [] OTHER -> "n"

\* One entry of spending_data.
spending_dict(s) ==
    [transaction_id |-> Str(s.id),
     amount |-> s.amount,
     category |-> Lower(s.category),
     vendor |-> s.vendor,
     date |-> s.date,
     department |-> Lower(s.department)]

\* Map confidence score to priority.
priority_of(confidence_score) ==
    IF RatGE(confidence_score, R(8, 10)) THEN "high"
    ELSE IF RatGE(confidence_score, R(6, 10)) THEN "medium"
    ELSE "low"

\* Map recommendation type to enum: the member name, "unknown" when no
\* branch matches.
rec_type_of(rec) ==
    LET t == Get(rec, "type", "") IN
    CASE t = "cost_saving" -> "cost_saving"
      [] t = "budget_optimization" -> "budget_optimization"
      [] t = "vendor_consolidation" -> "vendor_consolidation"
      [] t = "spending_anomaly" -> "spending_anomaly"
      [] t = "policy_violation" -> "policy_violation"
      [] OTHER -> "unknown"

\* filtered_recommendations
filtered_recommendations(model_recommendations, min_confidence) ==
    SelectSeq(model_recommendations,
              LAMBDA rec: /\ Truthy(rec)
                          /\ RatGE(Get(rec, "confidence_score", R(0, 1)),
                                   min_confidence))

\* The spending id the loop resolves for rec: the row whose id equals
\* rec['transaction_id'], else the first row.
spending_id_of(rec, all_spending) ==
    LET hit == {i \in 1..Len(all_spending) :
                   /\ "transaction_id" \in DOMAIN rec
                   /\ Str(all_spending[i].id) = rec.transaction_id}
    IN  IF hit # {} THEN all_spending[CHOOSE i \in hit : TRUE].id
        ELSE all_spending[1].id

\* "Check if a similar recommendation already exists"
existing_rec(rec, all_spending, stored) ==
    \E i \in 1..Len(stored) :
        /\ stored[i].spending_id = spending_id_of(rec, all_spending)
        /\ stored[i].type = Get(rec, "type", "unknown")

\* RecommendationModel(...) for rec, given the primary key the commit assigns.
new_rec(rec, all_spending, id) ==
    [id |-> id,
     spending_id |-> spending_id_of(rec, all_spending),
     type |-> rec_type_of(rec),
     title |-> Get(rec, "title", "Untitled Recommendation"),
     confidence_score |-> Get(rec, "confidence_score", R(0, 1)),
     priority |-> priority_of(Get(rec, "confidence_score", R(0, 1))),
     status |-> "pending"]

\* The rows the loop adds for the recommendations not yet stored.
RECURSIVE new_recommendations(_, _, _)
new_recommendations(filtered, all_spending, stored) ==
    IF filtered = <<>> THEN <<>>
    ELSE LET rec == Head(filtered) IN
         IF existing_rec(rec, all_spending, stored)
         THEN new_recommendations(Tail(filtered), all_spending, stored)
         ELSE LET row == new_rec(rec, all_spending, Len(stored) + 1) IN
              <<row>> \o new_recommendations(Tail(filtered), all_spending,
                                            Append(stored, row))

\* generate_recommendations: the response and the rows committed.  Every
\* exception inside the try block becomes HTTP 500 and nothing is committed.
generate_recommendations(all_spending, stored, min_confidence) ==
    IF all_spending = <<>> THEN [status |-> 200, body |-> <<>>]
    ELSE IF ~(spending_data_reads \subseteq SpendingModel_attrs)
    THEN [status |-> 500, body |-> <<>>]    \* AttributeError: s.user_id
    ELSE LET spending_data == [i \in 1..Len(all_spending) |->
                                  spending_dict(all_spending[i])]
             model_recommendations == predict(PyList(spending_data)).items
             filtered == filtered_recommendations(model_recommendations,
                                                  min_confidence)
         IN  IF filtered = <<>> THEN [status |-> 200, body |-> <<>>]
             ELSE IF \/ ~(new_rec_kwargs \subseteq RecommendationModel_attrs)
                     \/ "unknown" \notin RecommendationType_members
             THEN [status |-> 500, body |-> <<>>]    \* AttributeError
             ELSE [status |-> 200,
                   body |-> new_recommendations(filtered, all_spending, stored)]

\* The columns get_recommendations names on SpendingModel and on
\* RecommendationModel while it builds its query.
get_spending_reads ==
    {"amount", "category", "vendor", "spending_date", "transaction_id"}

get_recommendation_reads == {"transaction_id", "confidence_score"}

\* ORDER BY confidence_score DESC
RECURSIVE order_by_confidence_desc(_)
order_by_confidence_desc(rows) ==
    IF rows = <<>> THEN <<>>
    ELSE LET top == CHOOSE i \in 1..Len(rows) :
                        \A j \in 1..Len(rows) :
                            RatGE(rows[i].confidence_score, rows[j].confidence_score)
             rest == [k \in 1..(Len(rows) - 1) |->
                         IF k < top THEN rows[k] ELSE rows[k + 1]]
         IN  <<rows[top]>> \o order_by_confidence_desc(rest)

\* get_recommendations without the optional status, category and department
\* filters.  Building the query raises AttributeError when a named column is
\* missing; the except clause then reads HTTP_500_INTERNAL_SERVER_ERROR off
\* the `status` parameter, which raises again, and the server answers 500.
get_recommendations(all_spending, stored, skip, limit, min_confidence) ==
    IF \/ ~(get_spending_reads \subseteq SpendingModel_attrs)
       \/ ~(get_recommendation_reads \subseteq RecommendationModel_attrs)
    THEN [status |-> 500, body |-> <<>>]
    ELSE LET joined == SelectSeq(stored,
                 LAMBDA r: /\ \E i \in 1..Len(all_spending) :
                                  all_spending[i].transaction_id = r.transaction_id
                           /\ RatGE(r.confidence_score, min_confidence))
             ordered == order_by_confidence_desc(joined)
             last == IF skip + limit < Len(ordered) THEN skip + limit
                     ELSE Len(ordered)
         IN  [status |-> 200, body |-> SubSeq(ordered, skip + 1, last)]

-----------------------------------------------------------------------------
(* api/v1/endpoints/spending.py and the update and delete handlers of      *)
(* recommendations.py, as a started application serves them.  Each returns *)
(* the response status and the tables as the request leaves them.          *)

\* Values of CategoryEnum and DepartmentEnum (schemas/spending.py).
CategoryEnum ==
    {"office_supplies", "software", "hardware", "travel", "training",
     "consulting", "other"}

DepartmentEnum ==
    {"engineering", "marketing", "sales", "finance", "hr", "operations", "other"}

\* Request validation of a SpendingCreate body: required fields, amount > 0,
\* enum members.
SpendingCreate_valid(spending_in) ==
    /\ {"amount", "category", "vendor", "spending_date", "department"}
           \subseteq DOMAIN spending_in
    /\ RatGT(spending_in.amount, R(0, 1))
    /\ spending_in.category \in CategoryEnum
    /\ spending_in.department \in DepartmentEnum

\* spending_in.model_dump(): every field of SpendingBase, the unset ones with
\* their defaults.
SpendingCreate_dump(spending_in) ==
    [k \in {"amount", "category", "vendor", "justification", "spending_date",
            "department", "user_id", "user_type", "project_name", "borough",
            "approval_status"} |->
        IF k \in DOMAIN spending_in THEN
            IF k = "amount" THEN Round2(spending_in[k]) ELSE spending_in[k]
        ELSE IF k = "user_id" THEN "demo_user_123"
        ELSE IF k = "approval_status" THEN "pending"
        ELSE "None"]

\* Fields the response schema Spending requires of the object it is built
\* from (from_attributes).
Spending_required ==
    {"amount", "category", "vendor", "spending_date", "department",
     "transaction_id", "created_at"}

\* Fields the response schema Recommendation requires.
Recommendation_required ==
    {"spending_id", "recommendation_type", "title", "potential_savings",
     "confidence_score", "explanation", "suggested_action", "id"}

\* Serialising a spending row through response_model=Spending.
Spending_response(ok) ==
    IF Spending_required \subseteq SpendingModel_attrs THEN ok ELSE 500

\* Serialising a recommendation row through response_model=Recommendation.
Recommendation_response(row, ok) ==
    IF /\ Recommendation_required \subseteq RecommendationModel_attrs
       /\ Recommendation_required \subseteq DOMAIN row
    THEN ok ELSE 500

\* select(Model).where(Model.id == id): positions of the rows found.
where_id(rows, id) == {i \in 1..Len(rows) : rows[i].id = id}

without(rows, i) == [k \in 1..(Len(rows) - 1) |-> IF k < i THEN rows[k] ELSE rows[k + 1]]

\* setattr of every field of the body that is a column; the others are set
\* on the instance and never written.
setattrs(row, update_data, attrs) ==
    [k \in DOMAIN row \cup (DOMAIN update_data \cap attrs) |->
        IF k \in DOMAIN update_data THEN update_data[k] ELSE row[k]]

\* POST /: SpendingModel(**spending_in.model_dump()) raises TypeError on a
\* keyword that is no attribute of the mapped class.
create_spending(rows, next_id, spending_in) ==
    IF ~SpendingCreate_valid(spending_in)
    THEN [status |-> 422, spending |-> rows]
    ELSE LET kwargs == SpendingCreate_dump(spending_in)
         IN  IF ~(DOMAIN kwargs \subseteq SpendingModel_attrs)
             THEN [status |-> 500, spending |-> rows]
             ELSE [status |-> Spending_response(201),
                   spending |-> Append(rows, [id |-> next_id] @@ kwargs)]

\* GET / with no filter and the default skip and limit.
read_spendings(rows) ==
    IF rows = <<>> THEN [status |-> 200, body |-> <<>>]
    ELSE [status |-> Spending_response(200), body |-> rows]

\* GET /{spending_id}
read_spending(rows, spending_id) ==
    IF where_id(rows, spending_id) = {}
    THEN [status |-> 404, spending |-> rows]
    ELSE [status |-> Spending_response(200), spending |-> rows]

\* PUT /{spending_id}
update_spending(rows, spending_id, spending_in) ==
    IF where_id(rows, spending_id) = {}
    THEN [status |-> 404, spending |-> rows]
    ELSE LET i == CHOOSE i \in where_id(rows, spending_id) : TRUE
         IN  [status |-> Spending_response(200),
              spending |-> [rows EXCEPT ![i] =
                               setattrs(@, spending_in, SpendingModel_attrs)]]

delete_spending_unguarded(rows, recs, spending_id) ==
    IF where_id(rows, spending_id) = {}
    THEN [status |-> 204, spending |-> IF rows = <<>> THEN rows ELSE Tail(rows)]
    ELSE LET i == CHOOSE i \in where_id(rows, spending_id) : TRUE
         IN  IF \E j \in 1..Len(recs) : recs[j].spending_id = spending_id
             THEN [status |-> 500, spending |-> rows]
             ELSE [status |-> 204, spending |-> without(rows, i)]

\* DELETE /{spending_id}.  Spending.recommendations has no delete cascade:
\* the flush sets spending_id of the row's recommendations to NULL, the
\* column is NOT NULL, and the commit raises IntegrityError.
delete_spending(rows, recs, spending_id) ==
    IF where_id(rows, spending_id) = {}
    THEN [status |-> 404, spending |-> rows]
    ELSE LET i == CHOOSE i \in where_id(rows, spending_id) : TRUE
         IN  IF \E j \in 1..Len(recs) : recs[j].spending_id = spending_id
             THEN [status |-> 500, spending |-> rows]
             ELSE [status |-> 204, spending |-> without(rows, i)]

\* PUT /{recommendation_id}
update_recommendation(recs, recommendation_id, recommendation_in) ==
    IF where_id(recs, recommendation_id) = {}
    THEN [status |-> 404, recommendation |-> recs]
    ELSE LET i == CHOOSE i \in where_id(recs, recommendation_id) : TRUE
             row == setattrs(recs[i], recommendation_in, RecommendationModel_attrs)
         IN  [status |-> Recommendation_response(row, 200),
              recommendation |-> [recs EXCEPT ![i] = row]]

\* DELETE /{recommendation_id}
delete_recommendation(recs, recommendation_id) ==
    IF where_id(recs, recommendation_id) = {}
    THEN [status |-> 404, recommendation |-> recs]
    ELSE LET i == CHOOSE i \in where_id(recs, recommendation_id) : TRUE
         IN  [status |-> 204, recommendation |-> without(recs, i)]

-----------------------------------------------------------------------------
(* db/session.py: the engine and session factory of the process, and the   *)
(* get_db dependency.  Every caller is a coroutine of one event loop:      *)
(* init_db has no await in its body and acquiring the free _init_lock does *)
(* not suspend, so a call of init_db runs from entry to return without     *)
(* another coroutine in between; the lock is free again whenever another   *)
(* coroutine runs.  get_db suspends at its yield and at each awaited       *)
(* commit, rollback and close.                                             *)

RuntimeError == [pytype |-> "RuntimeError"]

\* The module's globals at import, with counts of the objects created.
session_globals ==
    [_engine |-> None, _async_session_factory |-> None,
     engines_created |-> 0, factories_created |-> 0, init_returned |-> FALSE]

create_async_engine(n) == [pytype |-> "AsyncEngine", id |-> n]

async_sessionmaker(engine) == [pytype |-> "async_sessionmaker", bind |-> engine]

init_db_unguarded(g) ==
    LET engine == create_async_engine(g.engines_created + 1)
    IN  [g EXCEPT !._engine = engine,
                  !._async_session_factory = async_sessionmaker(engine),
                  !.engines_created = @ + 1,
                  !.factories_created = @ + 1,
                  !.init_returned = TRUE]

\* await init_db(): the fast path, then the second check under the lock,
\* then the engine and the factory.
init_db(g) ==
    IF g._engine # None
    THEN [g EXCEPT !.init_returned = TRUE]
    ELSE IF g._engine # None
         THEN [g EXCEPT !.init_returned = TRUE]
         ELSE LET engine == create_async_engine(g.engines_created + 1)
              IN  [g EXCEPT !._engine = engine,
                            !._async_session_factory = async_sessionmaker(engine),
                            !.engines_created = @ + 1,
                            !.factories_created = @ + 1,
                            !.init_returned = TRUE]

get_engine(g) == IF g._engine = None THEN RuntimeError ELSE g._engine

get_async_session_factory(g) ==
    IF g._async_session_factory = None THEN RuntimeError
    ELSE g._async_session_factory

\* A request that holds no session.
no_request ==
    [pc |-> "idle", outcome |-> "none", todo |-> <<>>, commits |-> 0,
     rollbacks |-> 0, closed |-> FALSE, raised |-> FALSE]

get_db_exit_no_finally(outcome) ==
    IF outcome = "returned" THEN <<"commit", "close">>
    ELSE <<"rollback", "raise">>

\* What get_db does once the handler is through with the session: commit
\* after a return; rollback after an exception, which is raised again once
\* the finally clause has closed the session.
get_db_exit(outcome) ==
    IF outcome = "returned" THEN <<"commit", "close">>
    ELSE <<"rollback", "close", "raise">>

\* One session operation of get_db's exit applied to the request.
session_step(req) ==
    LET op == Head(req.todo)
        rest == Tail(req.todo)
        after == [req EXCEPT !.todo = rest,
                             !.pc = IF rest = <<>> THEN "done" ELSE "exiting"]
    IN  CASE op = "commit" -> [after EXCEPT !.commits = @ + 1]
          [] op = "rollback" -> [after EXCEPT !.rollbacks = @ + 1]
          [] op = "close" -> [after EXCEPT !.closed = TRUE]
          [] op = "raise" -> [after EXCEPT !.raised = TRUE]

-----------------------------------------------------------------------------
(* Inputs                                                                  *)

\* Amounts in cents: the Rule A boundaries mean + 2 x std_dev of hr (12000),
\* the default department (20000) and technology (25000) with one cent on
\* either side, the Rule B boundaries 1.5 x mean of office supplies (1200)
\* and services (4500), and amounts far from every boundary.
AmountCents ==
    {-10000, 0, 10000, 120000, 120001, 450000, 450003, 1199999, 1200000,
     1200001, 2000000, 2000001, 2500000, 2500001, 10000000}

Amounts == {R(c, 100) : c \in AmountCents}
Departments == {"hr", "HR", "technology", "parks"}
Categories == {"services", "Services", "office supplies", "other", "software"}

WellFormed ==
    {[transaction_id |-> "TX1", amount |-> a, category |-> c,
      vendor |-> "Acme Inc.", department |-> d] :
        a \in Amounts, c \in Categories, d \in Departments}

\* Records lacking one required field.
Malformed ==
    {[transaction_id |-> "TX1", category |-> "services", vendor |-> "Acme Inc.",
      department |-> "hr"],
     [transaction_id |-> "TX1", amount |-> R(100000, 1), vendor |-> "Acme Inc.",
      department |-> "hr"],
     [transaction_id |-> "TX1", amount |-> R(100000, 1), category |-> "services",
      department |-> "hr"],
     [transaction_id |-> "TX1", amount |-> R(100000, 1), category |-> "services",
      vendor |-> "Acme Inc."]}

Records == WellFormed \cup Malformed

\* The elements of the batches handed to predict: a record that satisfies
\* both rules, one that satisfies Rule B only, one that satisfies none, one
\* alone in its department and category, a malformed one, one exactly two
\* standard deviations above its department mean, and a non-dict.
BatchElements ==
    {[transaction_id |-> "TX1", amount |-> R(100000, 1), category |-> "services",
      vendor |-> "Acme Inc.", department |-> "hr"],
     [transaction_id |-> "TX2", amount |-> R(450003, 100), category |-> "services",
      vendor |-> "Acme Inc.", department |-> "technology"],
     [transaction_id |-> "TX3", amount |-> R(100, 1), category |-> "services",
      vendor |-> "Acme Inc.", department |-> "hr"],
     [transaction_id |-> "TX4", amount |-> R(100000, 1), category |-> "software",
      vendor |-> "Acme Inc.", department |-> "parks"],
     [transaction_id |-> "TX5", amount |-> R(100000, 1), category |-> "services",
      department |-> "hr"],
     [transaction_id |-> "TX6", amount |-> R(12000, 1), category |-> "software",
      vendor |-> "Acme Inc.", department |-> "hr"],
     PyInt(5)}

Batches == UNION {[1..n -> BatchElements] : n \in 0..MaxLen}

\* Rows inserted into the spending table (id aside).
SeedRows ==
    {[amount |-> R(100000, 1), category |-> "Services", vendor |-> "Acme Inc.",
      department |-> "HR", date |-> "2025-06-09"],
     [amount |-> R(450003, 100), category |-> "services", vendor |-> "Acme Inc.",
      department |-> "technology", date |-> "2025-06-09"],
     [amount |-> R(100, 1), category |-> "services", vendor |-> "Acme Inc.",
      department |-> "hr", date |-> "2025-06-09"]}

\* Three and four transactions of 200.00, each with a vendor of its own, that
\* trigger neither Rule A nor Rule B.
VendorNames == <<"Vendor A", "Vendor B", "Vendor C", "Vendor D">>

VendorBatches ==
    {[i \in 1..n |->
         [transaction_id |-> "TXV", amount |-> R(200, 1), category |-> "other",
          vendor |-> VendorNames[i], department |-> "hr"]] : n \in {3, 4}}

\* The last two lie outside [0, 1].
MinConfidences == {R(5, 10), R(7, 10), R(9, 10), R(3, 2), R(-1, 2)}

ZValues == {R(0, 1), R(100, 1), R(100000, 1)}
ZMeans == {R(0, 1), R(100, 1), R(25075, 1)}
ZStds == {R(0, 1), R(2000, 1), R(43258, 1)}

\* Thresholds a recommender is constructed with: the default, one above the
\* Rule B confidence and one outside [0, 1].
Thresholds == {R(7, 10), R(9, 10), R(3, 2)}

\* The callers that share one recommender.
Threads == {1, 2}

\* A caller that is not inside predict.
idle == [pc |-> "idle"]

\* What the concurrent callers hand to predict: lists of a record that
\* triggers Rule A and of a non-dictionary, and that record alone.
ThreadElements ==
    {[transaction_id |-> "TX1", amount |-> R(100000, 1), category |-> "services",
      vendor |-> "Acme Inc.", department |-> "hr"],
     PyInt(5)}

ThreadInputs ==
    {PyList(b) : b \in UNION {[1..n -> ThreadElements] : n \in 0..MaxLen}}
        \cup {e \in ThreadElements : IsDict(e)}


\* Bodies of POST /: two that pass request validation, the body of
\* test_spending_endpoints, and one with a non-positive amount.
SpendingCreates ==
    {[amount |-> R(100, 1), category |-> "software", vendor |-> "Test Vendor",
      spending_date |-> "2025-01-01", department |-> "hr"],
     [amount |-> R(450003, 100), category |-> "consulting",
      vendor |-> "Acme Inc.", spending_date |-> "2025-06-09",
      department |-> "finance", justification |-> "Test purchase"],
     [transaction_id |-> "test123", user_id |-> "test_user", user_type |-> "test",
      department |-> "IT", project_name |-> "Test Project",
      borough |-> "Manhattan", spending_date |-> "2025-01-01",
      vendor |-> "Test Vendor", category |-> "Software", amount |-> R(100, 1),
      justification |-> "Test purchase", approval_status |-> "approved"],
     [amount |-> R(0, 1), category |-> "software", vendor |-> "Test Vendor",
      spending_date |-> "2025-01-01", department |-> "hr"]}

\* Body of PUT /{spending_id} (the fields set): columns of the table and
\* fields that are none.
SpendingUpdates ==
    {[amount |-> R(5, 1), category |-> "software", vendor |-> "New Vendor",
      department |-> "finance", justification |-> "changed",
      approval_status |-> "approved"]}

\* Body of PUT /{recommendation_id}.
RecommendationUpdates ==
    {[status |-> "implemented", title |-> "Review",
      confidence_score |-> R(9, 10), explanation |-> "checked",
      suggested_action |-> "renegotiate"]}

\* Identifiers a request names: those a table hands out and one more.
RequestIds == 1..(MaxSpending + 1)

\* The requests whose handlers depend on get_db.
Requests == 1..MaxRequests

\* How a request handler leaves the session it was handed.
Outcomes == {"returned", "raised"}

-----------------------------------------------------------------------------
(* State machine                                                           *)

Init ==
    /\ call = [op |-> "init"]
    /\ spending = <<>>
    /\ recommendation = <<>>
    /\ recommender = __init__(R(7, 10))
    /\ threads = [t \in Threads |-> idle]
    /\ db = session_globals
    /\ requests = [r \in Requests |-> no_request]
    /\ sqlite_sequence = [spending |-> 0, recommendation |-> 0]

\* recommender = SpendingRecommender(confidence_threshold)
Construct ==
    \E confidence_threshold \in Thresholds :
        /\ recommender' = __init__(confidence_threshold)
        /\ call' = [op |-> "__init__",
                    confidence_threshold |-> confidence_threshold]
        /\ UNCHANGED <<spending, recommendation, threads, db, requests, sqlite_sequence>>

\* recommender.predict(X), X a list or a single value
PredictCalls ==
    {[op |-> "predict", X |-> X, recs |-> predict_recs(X), ret |-> predict(X)] :
        X \in {PyList(b) : b \in Batches \cup VendorBatches} \cup BatchElements}

Predict ==
    \E c \in PredictCalls :
        /\ call' = c
        /\ UNCHANGED <<spending, recommendation, recommender, threads, db, requests, sqlite_sequence>>

\* recommender.predict_proba(X), X a list or a single value
PredictProbaCalls ==
    {[op |-> "predict_proba", X |-> X, recs |-> predict_recs(X),
      ret |-> predict_proba(X)] :
        X \in {PyList(b) : b \in Batches \cup VendorBatches} \cup BatchElements}

PredictProba ==
    \E c \in PredictProbaCalls :
        /\ call' = c
        /\ UNCHANGED <<spending, recommendation, recommender, threads, db, requests, sqlite_sequence>>

\* recommender._generate_recommendation(record)
GenerateRecommendationCalls ==
    {[op |-> "_generate_recommendation", record |-> record,
      ret |-> _generate_recommendation(record)] : record \in Records}

GenerateRecommendation ==
    \E c \in GenerateRecommendationCalls :
        /\ call' = c
        /\ UNCHANGED <<spending, recommendation, recommender, threads, db, requests, sqlite_sequence>>

\* recommender._calculate_z_score(value, mean, std_dev)
CalculateZScore ==
    \E value \in ZValues, mean \in ZMeans, std_dev \in ZStds :
        /\ call' = [op |-> "_calculate_z_score", value |-> value, mean |-> mean,
                    std_dev |-> std_dev,
                    ret |-> _calculate_z_score(value, mean, std_dev)]
        /\ UNCHANGED <<spending, recommendation, recommender, threads, db, requests, sqlite_sequence>>

\* calculate_zscore(value, mean, std)
CalculateZscoreHelper ==
    \E value \in ZValues, mean \in ZMeans, std \in ZStds :
        /\ call' = [op |-> "calculate_zscore", value |-> value, mean |-> mean,
                    std_dev |-> std, ret |-> calculate_zscore(value, mean, std)]
        /\ UNCHANGED <<spending, recommendation, recommender, threads, db, requests, sqlite_sequence>>

\* INSERT INTO spending: the table assigns the id after the last one it
\* handed out (AUTOINCREMENT).
InsertSpending ==
    \E row \in SeedRows :
        /\ sqlite_sequence.spending < MaxSpending
        /\ spending' = Append(spending,
                              [id |-> sqlite_sequence.spending + 1] @@ row)
        /\ sqlite_sequence' = [sqlite_sequence EXCEPT !.spending = @ + 1]
        /\ call' = [op |-> "insert_spending"]
        /\ UNCHANGED <<recommendation, recommender, threads, db, requests>>

\* GET /generate
GenerateRecommendations ==
    \E min_confidence \in MinConfidences :
        LET response == generate_recommendations(spending, recommendation,
                                                 min_confidence)
        IN  /\ call' = [op |-> "generate_recommendations",
                        min_confidence |-> min_confidence,
                        stored_before |-> recommendation,
                        status |-> response.status, body |-> response.body]
            /\ recommendation' = recommendation \o response.body
            /\ UNCHANGED <<spending, recommender, threads, db, requests, sqlite_sequence>>

\* GET / with the default skip and limit
GetRecommendations ==
    \E min_confidence \in MinConfidences :
        LET response == get_recommendations(spending, recommendation, 0, 100,
                                            min_confidence)
        IN  /\ call' = [op |-> "get_recommendations",
                        min_confidence |-> min_confidence,
                        status |-> response.status, body |-> response.body]
            /\ UNCHANGED <<spending, recommendation, recommender, threads, db, requests, sqlite_sequence>>

\* INSERT INTO recommendation: at most one row for a spending id that is in
\* the table.
InsertRecommendation ==
    \E i \in 1..Len(spending) :
        /\ \A j \in 1..Len(recommendation) :
               recommendation[j].spending_id # spending[i].id
        /\ sqlite_sequence.recommendation < MaxRecommendations
        /\ recommendation' = Append(recommendation,
               [id |-> sqlite_sequence.recommendation + 1,
                spending_id |-> spending[i].id,
                recommendation_type |-> "cost_saving",
                description |-> "Recommendation for spending ID",
                potential_savings |-> R(100, 1),
                status |-> "pending"])
        /\ sqlite_sequence' = [sqlite_sequence EXCEPT !.recommendation = @ + 1]
        /\ call' = [op |-> "insert_recommendation"]
        /\ UNCHANGED <<spending, recommender, threads, db, requests>>

\* POST /api/v1/spending/
CreateSpending ==
    \E spending_in \in SpendingCreates :
        LET response == create_spending(spending, sqlite_sequence.spending + 1,
                                        spending_in)
        IN  /\ sqlite_sequence.spending < MaxSpending
            /\ spending' = response.spending
            /\ sqlite_sequence' =
                   [sqlite_sequence EXCEPT !.spending =
                       IF Len(response.spending) > Len(spending) THEN @ + 1 ELSE @]
            /\ call' = [op |-> "create_spending", spending_in |-> spending_in,
                        id |-> sqlite_sequence.spending + 1,
                        status |-> response.status,
                        spending_before |-> spending,
                        recommendation_before |-> recommendation]
            /\ UNCHANGED <<recommendation, recommender, threads, db, requests>>

\* GET /api/v1/spending/
ReadSpendings ==
    LET response == read_spendings(spending)
    IN  /\ call' = [op |-> "read_spendings", status |-> response.status,
                    body |-> response.body, spending_before |-> spending,
                    recommendation_before |-> recommendation]
        /\ UNCHANGED <<spending, recommendation, recommender, threads, db,
                       requests, sqlite_sequence>>

\* GET /api/v1/spending/{spending_id}
ReadSpending ==
    \E spending_id \in RequestIds :
        LET response == read_spending(spending, spending_id)
        IN  /\ call' = [op |-> "read_spending", id |-> spending_id,
                        status |-> response.status,
                        spending_before |-> spending,
                        recommendation_before |-> recommendation]
            /\ spending' = response.spending
            /\ UNCHANGED <<recommendation, recommender, threads, db, requests,
                           sqlite_sequence>>

\* PUT /api/v1/spending/{spending_id}
UpdateSpending ==
    \E spending_id \in RequestIds, spending_in \in SpendingUpdates :
        LET response == update_spending(spending, spending_id, spending_in)
        IN  /\ call' = [op |-> "update_spending", id |-> spending_id,
                        status |-> response.status,
                        spending_before |-> spending,
                        recommendation_before |-> recommendation]
            /\ spending' = response.spending
            /\ UNCHANGED <<recommendation, recommender, threads, db, requests,
                           sqlite_sequence>>

\* DELETE /api/v1/spending/{spending_id}
DeleteSpending ==
    \E spending_id \in RequestIds :
        LET response == delete_spending(spending, recommendation, spending_id)
        IN  /\ call' = [op |-> "delete_spending", id |-> spending_id,
                        status |-> response.status,
                        spending_before |-> spending,
                        recommendation_before |-> recommendation]
            /\ spending' = response.spending
            /\ UNCHANGED <<recommendation, recommender, threads, db, requests,
                           sqlite_sequence>>

\* PUT /api/v1/recommendations/{recommendation_id}
UpdateRecommendation ==
    \E recommendation_id \in RequestIds,
       recommendation_in \in RecommendationUpdates :
        LET response == update_recommendation(recommendation, recommendation_id,
                                              recommendation_in)
        IN  /\ call' = [op |-> "update_recommendation",
                        id |-> recommendation_id,
                        status |-> response.status,
                        spending_before |-> spending,
                        recommendation_before |-> recommendation]
            /\ recommendation' = response.recommendation
            /\ UNCHANGED <<spending, recommender, threads, db, requests,
                           sqlite_sequence>>

\* DELETE /api/v1/recommendations/{recommendation_id}
DeleteRecommendation ==
    \E recommendation_id \in RequestIds :
        LET response == delete_recommendation(recommendation, recommendation_id)
        IN  /\ call' = [op |-> "delete_recommendation",
                        id |-> recommendation_id,
                        status |-> response.status,
                        spending_before |-> spending,
                        recommendation_before |-> recommendation]
            /\ recommendation' = response.recommendation
            /\ UNCHANGED <<spending, recommender, threads, db, requests,
                           sqlite_sequence>>

\* Caller t enters recommender.predict(X): lines 72-80.
PredictEnter(t) ==
    \E X \in ThreadInputs :
        /\ threads[t].pc = "idle"
        /\ threads' = [threads EXCEPT ![t] =
               IF ~Truthy(X)
               THEN [pc |-> "done", arg |-> X, X |-> X, ret |-> PyList(<<>>),
                     overlapped |-> FALSE]
               ELSE [pc |-> "loop", arg |-> X,
                     X |-> IF IsList(X) THEN X ELSE PyList(<<X>>),
                     single_input |-> ~IsList(X), i |-> 1,
                     recommendations |-> <<>>, overlapped |-> FALSE]]
        /\ UNCHANGED <<call, spending, recommendation, recommender, db, requests, sqlite_sequence>>

\* Caller t runs one turn of the loop: lines 81-93.  `overlapped` is history:
\* it records that another caller took a turn while this one was in its loop.
PredictTurn(t) ==
    /\ threads[t].pc = "loop"
    /\ threads[t].i <= Len(threads[t].X.items)
    /\ LET me == threads[t]
           turn == predict_turn(recommender, me.recommendations, me.X.items[me.i])
       IN  /\ recommender' = turn.self
           /\ threads' = [u \in Threads |->
                  IF u = t
                  THEN [me EXCEPT !.X.items[me.i] = turn.record,
                                  !.recommendations = turn.recommendations,
                                  !.i = me.i + 1]
                  ELSE IF threads[u].pc = "loop" /\ threads[u].i > 1
                  THEN [threads[u] EXCEPT !.overlapped = TRUE]
                  ELSE threads[u]]
    /\ UNCHANGED <<call, spending, recommendation, db, requests, sqlite_sequence>>

\* Caller t returns from predict: line 95.
PredictReturn(t) ==
    /\ threads[t].pc = "loop"
    /\ threads[t].i > Len(threads[t].X.items)
    /\ LET me == threads[t] IN
       threads' = [threads EXCEPT ![t] =
           [pc |-> "done", arg |-> me.arg,
            X |-> IF me.single_input THEN me.X.items[1] ELSE me.X,
            ret |-> IF me.single_input /\ me.recommendations # <<>>
                    THEN me.recommendations[1]
                    ELSE PyList(me.recommendations),
            overlapped |-> me.overlapped]]
    /\ UNCHANGED <<call, spending, recommendation, recommender, db, requests, sqlite_sequence>>

\* Caller t has taken its result and may call again.
PredictDone(t) ==
    /\ threads[t].pc = "done"
    /\ threads' = [threads EXCEPT ![t] = idle]
    /\ UNCHANGED <<call, spending, recommendation, recommender, db, requests, sqlite_sequence>>

\* await init_db() from any coroutine.
InitDb ==
    /\ db' = init_db(db)
    /\ call' = [op |-> "init_db", before |-> db]
    /\ UNCHANGED <<spending, recommendation, recommender, threads, requests, sqlite_sequence>>

GetEngine ==
    /\ call' = [op |-> "get_engine", initialized |-> db.init_returned,
                ret |-> get_engine(db)]
    /\ UNCHANGED <<spending, recommendation, recommender, threads, db, requests, sqlite_sequence>>

GetAsyncSessionFactory ==
    /\ call' = [op |-> "get_async_session_factory",
                initialized |-> db.init_returned,
                ret |-> get_async_session_factory(db)]
    /\ UNCHANGED <<spending, recommendation, recommender, threads, db, requests, sqlite_sequence>>

\* get_db up to its yield: init_db, the factory, a session for the handler.
GetDbEnter(r) ==
    /\ requests[r].pc = "idle"
    /\ db' = init_db(db)
    /\ requests' = [requests EXCEPT ![r] =
           IF get_async_session_factory(db') = RuntimeError
           THEN [no_request EXCEPT !.pc = "done", !.raised = TRUE]
           ELSE [no_request EXCEPT !.pc = "yielded"]]
    /\ UNCHANGED <<call, spending, recommendation, recommender, threads, sqlite_sequence>>

\* The handler returns, or raises into the generator at its yield.
HandlerFinishes(r) ==
    /\ requests[r].pc = "yielded"
    /\ \E outcome \in Outcomes :
           requests' = [requests EXCEPT ![r] =
               [@ EXCEPT !.pc = "exiting", !.outcome = outcome,
                         !.todo = get_db_exit(outcome)]]
    /\ UNCHANGED <<call, spending, recommendation, recommender, threads, db, sqlite_sequence>>

\* The next awaited session operation of get_db's exit.
GetDbStep(r) ==
    /\ requests[r].pc = "exiting"
    /\ requests' = [requests EXCEPT ![r] = session_step(@)]
    /\ UNCHANGED <<call, spending, recommendation, recommender, threads, db, sqlite_sequence>>

\* The response is sent and the next request may come in.
RequestDone(r) ==
    /\ requests[r].pc = "done"
    /\ requests' = [requests EXCEPT ![r] = no_request]
    /\ UNCHANGED <<call, spending, recommendation, recommender, threads, db, sqlite_sequence>>

\* The engine, the factory and the requests depending on get_db.
SessionNext ==
    \/ InitDb
    \/ GetEngine
    \/ GetAsyncSessionFactory
    \/ \E r \in Requests :
           \/ GetDbEnter(r)
           \/ HandlerFinishes(r)
           \/ GetDbStep(r)
           \/ RequestDone(r)

\* The tables under the create, read, update and delete handlers.
CrudNext ==
    \/ InsertSpending
    \/ InsertRecommendation
    \/ CreateSpending
    \/ ReadSpendings
    \/ ReadSpending
    \/ UpdateSpending
    \/ DeleteSpending
    \/ UpdateRecommendation
    \/ DeleteRecommendation

\* Callers sharing the recommender, each inside its own predict.
ConcurrentNext ==
    \E t \in Threads :
        \/ PredictEnter(t)
        \/ PredictTurn(t)
        \/ PredictReturn(t)
        \/ PredictDone(t)

\* The calls on the recommender and the z-score helper alone.
RulesNext ==
    \/ Construct
    \/ Predict
    \/ PredictProba
    \/ GenerateRecommendation
    \/ CalculateZScore
    \/ CalculateZscoreHelper

Next ==
    \/ RulesNext
    \/ InsertSpending
    \/ GenerateRecommendations
    \/ GetRecommendations
    \/ ConcurrentNext
    \/ SessionNext
    \/ CrudNext

\* The endpoint over the store, with the recommender's predict.
StoreNext ==
    \/ Predict
    \/ InsertSpending
    \/ GenerateRecommendations
    \/ GetRecommendations

Spec == Init /\ [][Next]_vars

StoreSpec == Init /\ [][StoreNext]_vars

ConcurrentSpec == Init /\ [][ConcurrentNext]_vars

RulesSpec == Init /\ [][RulesNext]_vars

SessionSpec == Init /\ [][SessionNext]_vars

CrudSpec == Init /\ [][CrudNext]_vars

-----------------------------------------------------------------------------
(* Properties                                                              *)

\* The amount of a record in cents (amounts have at most two decimals).
CentsOf(record) == record.amount.n * (100 \div record.amount.d)

\* The department benchmark of a record in cents.
DeptMeanCents(record) == 100 * dept_stat(record.department).mean
DeptStdCents(record) == 100 * dept_stat(record.department).std_dev

\* Rule A's condition z > 2.0 on whole cents: amount - mean > 2 x std_dev.
RuleACondition(record) ==
    /\ DeptStdCents(record) > 0
    /\ CentsOf(record) - DeptMeanCents(record) > 2 * DeptStdCents(record)

\* Rule B's condition on whole cents: amount > 1.5 x the category mean.
RuleBCondition(record) ==
    /\ Lower(record.category) \in DOMAIN category_benchmarks
    /\ 2 * CentsOf(record) > 3 * 100 * category_benchmarks[Lower(record.category)].mean

IsWellFormed(record) == IsDict(record) /\ required_fields \subseteq DOMAIN record

IsKind(rec, kind) == rec # None /\ rec.recommendation_type = kind

\* "high" from 0.8, "medium" from 0.6, "low" below.
ThresholdPriority(c) ==
    IF 10 * c.n >= 8 * c.d THEN "high"
    ELSE IF 10 * c.n >= 6 * c.d THEN "medium"
    ELSE "low"

DirectCall == call.op = "_generate_recommendation"

\* C1: predict returns, for a list, one entry per record in input order, the
\* i-th being what the rules generate for record i alone (None for a
\* malformed record), and for a single dict that single recommendation.
C1_PredictReturnsRuleOutput ==
    call.op = "predict" =>
        IF IsList(call.X)
        THEN /\ IsList(call.ret)
             /\ Len(call.ret.items) = Len(call.X.items)
             /\ \A i \in 1..Len(call.X.items) : call.ret.items[i] = call.recs[i]
        ELSE call.ret = call.recs[1]

\* C2: a transaction triggers Rule A exactly when its z-score against its
\* group's mean and (positive) standard deviation is strictly above 2.0.
C2_AnomalyIffZAboveTwo ==
    (DirectCall /\ IsWellFormed(call.record)) =>
        (IsKind(call.ret, "spending_anomaly") <=> RuleACondition(call.record))

\* A call one cent above mean + 2 x std_dev that returned the anomaly.
C2_Witness ==
    /\ DirectCall
    /\ IsWellFormed(call.record)
    /\ CentsOf(call.record) - DeptMeanCents(call.record)
           = 2 * DeptStdCents(call.record) + 1
    /\ IsKind(call.ret, "spending_anomaly")

\* C3: every recommendation returned has 0 <= confidence_score <= 1 and
\* potential_savings >= 0.
InRange(rec) ==
    /\ 0 <= rec.confidence_score.n
    /\ rec.confidence_score.n <= rec.confidence_score.d
    /\ rec.potential_savings.n >= 0

C3_ScoresInRange ==
    /\ (DirectCall /\ call.ret # None) => InRange(call.ret)
    /\ call.op = "predict" =>
           \A i \in 1..Len(call.recs) : call.recs[i] # None => InRange(call.recs[i])

\* An anomaly more than six standard deviations above the mean was returned.
C3_Witness ==
    /\ DirectCall
    /\ IsKind(call.ret, "spending_anomaly")
    /\ CentsOf(call.record) - DeptMeanCents(call.record)
           > 6 * DeptStdCents(call.record)

\* C4: generate_recommendations persists, with status pending, and returns a
\* recommendation for every stored record that satisfies a rule with
\* confidence >= min_confidence and has no recommendation stored yet.
C4_GeneratePersistsTriggered ==
    call.op = "generate_recommendations" =>
        \A i \in 1..Len(spending) :
            LET expected == _generate_recommendation(spending_dict(spending[i])) IN
            (/\ expected # None
             /\ RatGE(expected.confidence_score, call.min_confidence)
             /\ \A j \in 1..Len(call.stored_before) :
                    call.stored_before[j].spending_id # spending[i].id)
            => \E j \in 1..Len(recommendation) :
                   /\ recommendation[j].spending_id = spending[i].id
                   /\ recommendation[j].status = "pending"
                   /\ \E k \in 1..Len(call.body) : call.body[k] = recommendation[j]

\* The kinds of recommendation a call returned.
KindsReturned(rec) == IF rec = None THEN {} ELSE {rec.recommendation_type}

\* C5 as stated: a transaction satisfying both Rule A and Rule B yields a
\* recommendation for each of the two rules.
C5_BothRulesBothRecommendations ==
    (DirectCall /\ IsWellFormed(call.record)
        /\ RuleACondition(call.record) /\ RuleBCondition(call.record)) =>
        KindsReturned(call.ret) = {"spending_anomaly", "cost_saving"}

\* C5 amended: a transaction satisfying both rules yields exactly one
\* recommendation, the Rule A anomaly; Rule B is reported only when Rule A
\* does not trigger.
C5_AnomalyTakesPrecedence ==
    (DirectCall /\ IsWellFormed(call.record)) =>
        /\ (RuleACondition(call.record) /\ RuleBCondition(call.record))
               => KindsReturned(call.ret) = {"spending_anomaly"}
        /\ IsKind(call.ret, "cost_saving") => ~RuleACondition(call.record)

\* A call on a record that satisfies both rules.
C5_Witness ==
    /\ DirectCall
    /\ IsWellFormed(call.record)
    /\ RuleACondition(call.record)
    /\ RuleBCondition(call.record)
    /\ call.ret # None

\* C6: the priority of every recommendation, returned by the recommender or
\* persisted by generate_recommendations, is "high" from confidence 0.8,
\* "medium" from 0.6 and "low" below.
C6_PriorityFromConfidence ==
    /\ (DirectCall /\ call.ret # None) =>
           call.ret.priority = ThresholdPriority(call.ret.confidence_score)
    /\ \A j \in 1..Len(recommendation) :
           recommendation[j].priority
               = ThresholdPriority(recommendation[j].confidence_score)

\* 0.7 + 0.05 x z for the record's department benchmark, z on whole cents.
LinearConfidence(record) ==
    R(70 * DeptStdCents(record) + 5 * (CentsOf(record) - DeptMeanCents(record)),
      100 * DeptStdCents(record))

\* C7 as stated: the Rule A confidence is min(0.99, 0.7 + 0.05 x z), and the
\* 100000 transaction triggers Rule A with confidence 0.99.
C7_ConfidenceClampedAt099 ==
    (DirectCall /\ IsKind(call.ret, "spending_anomaly")) =>
        /\ call.ret.confidence_score
               = RatMin(R(99, 100), LinearConfidence(call.record))
        /\ call.record.amount = R(100000, 1)
               => call.ret.confidence_score = R(99, 100)

\* C7 amended: the Rule A confidence is min(0.9, 0.7 + 0.05 x z), z taken
\* against the fixed benchmark of the record's department; a 100000
\* transaction triggers Rule A and its confidence is clamped to 0.9.
C7_ConfidenceClampedAt09 ==
    (DirectCall /\ IsWellFormed(call.record)) =>
        /\ IsKind(call.ret, "spending_anomaly") =>
               call.ret.confidence_score =
                   IF CentsOf(call.record) - DeptMeanCents(call.record)
                          >= 4 * DeptStdCents(call.record)
                   THEN R(9, 10)
                   ELSE LinearConfidence(call.record)
        /\ call.record.amount = R(100000, 1) =>
               /\ IsKind(call.ret, "spending_anomaly")
               /\ call.ret.confidence_score = R(9, 10)

\* The 100000 transaction was evaluated and flagged.
C7_Witness ==
    /\ DirectCall
    /\ IsWellFormed(call.record)
    /\ call.record.amount = R(100000, 1)
    /\ IsKind(call.ret, "spending_anomaly")

ZScoreCall == call.op \in {"_calculate_z_score", "calculate_zscore"}

\* C8: the z-score of any value against any mean is 0 when the standard
\* deviation is 0, so Rule A's test z > 2.0 fails on it.
C8_ZeroStdGivesZeroZ ==
    (ZScoreCall /\ call.std_dev = R(0, 1)) =>
        /\ call.ret = R(0, 1)
        /\ ~(call.ret.n > 2 * call.ret.d)

\* A z-score function was called with std_dev = 0, value # mean and mean # 0.
C8_Witness ==
    /\ ZScoreCall
    /\ call.std_dev = R(0, 1)
    /\ call.value # call.mean
    /\ call.mean # R(0, 1)

\* Element i of the batch is a well-formed record and no other element of
\* the batch has its department or its category.
SoleMember(X, i) ==
    /\ IsWellFormed(X.items[i])
    /\ \A j \in 1..Len(X.items) :
           (j # i /\ IsWellFormed(X.items[j])) =>
               /\ Lower(X.items[j].department) # Lower(X.items[i].department)
               /\ Lower(X.items[j].category) # Lower(X.items[i].category)

C10_CostSavingContract ==
    (DirectCall /\ IsKind(call.ret, "cost_saving")) =>
        LET rate == category_benchmarks[Lower(call.record.category)].savings_potential
        IN  /\ RuleBCondition(call.record)
            /\ call.ret.potential_savings
                   = R(RoundHalfEven(CentsOf(call.record) * rate.n, rate.d), 100)
            /\ call.ret.confidence_score = R(8, 10)

\* A cost-optimization recommendation whose savings needed rounding.
C10_Witness ==
    /\ DirectCall
    /\ IsKind(call.ret, "cost_saving")
    /\ call.record.amount = R(450003, 100)
    /\ call.ret.potential_savings = R(90001, 100)

\* Rule B's comparison made against the default benchmark (category_benchmarks['other']).
DefaultBenchmarkCondition(record) ==
    2 * CentsOf(record) > 3 * 100 * category_benchmarks["other"].mean

\* C11: a transaction whose category has no benchmark entry is judged by
\* Rule B against the default benchmark: when its amount exceeds 1.5 x the
\* default mean and Rule A does not apply, a cost-optimization
\* recommendation is produced for it.
C11_UnknownCategoryUsesDefault ==
    (/\ DirectCall
     /\ IsWellFormed(call.record)
     /\ Lower(call.record.category) \notin DOMAIN category_benchmarks
     /\ ~RuleACondition(call.record)
     /\ DefaultBenchmarkCondition(call.record))
    => IsKind(call.ret, "cost_saving")

\* The entries of `s` at the positions where the batch `X` holds a
\* well-formed record.
AtWellFormed(s, X) ==
    LET F[i \in 0..Len(X)] ==
            IF i = 0 THEN <<>>
            ELSE IF IsWellFormed(X[i]) THEN Append(F[i - 1], s[i])
            ELSE F[i - 1]
    IN  F[Len(X)]

WellFormedOf(X) == SelectSeq(X, IsWellFormed)

\* C12: a malformed record (a required field missing, or not a dictionary)
\* is skipped individually: predict returns a list with an entry for every
\* record of the batch, the entries of the other records, and the rule
\* outputs predict obtained for them, are those of the batch without the
\* malformed records, and the rules return None for a malformed record.
C12_MalformedSkippedIndividually ==
    /\ (call.op = "predict" /\ IsList(call.X)) =>
           /\ IsList(call.ret)
           /\ Len(call.ret.items) = Len(call.X.items)
           /\ AtWellFormed(call.ret.items, call.X.items)
                  = predict(PyList(WellFormedOf(call.X.items))).items
           /\ AtWellFormed(call.recs, call.X.items)
                  = predict_recs(PyList(WellFormedOf(call.X.items)))
    /\ (DirectCall /\ ~IsWellFormed(call.record)) => call.ret = None

\* A batch of a non-dictionary followed by a record that triggers Rule A:
\* the record was still evaluated.
C12_Witness ==
    /\ call.op = "predict"
    /\ IsList(call.X)
    /\ Len(call.X.items) = 2
    /\ ~IsDict(call.X.items[1])
    /\ IsWellFormed(call.X.items[2])
    /\ IsKind(call.recs[2], "spending_anomaly")
    /\ Len(call.ret.items) = 2

\* C13: an empty transaction set yields an empty recommendation list:
\* predict([]) returns [], and generate_recommendations on a store without
\* spending rows answers 200 with [] and leaves the recommendation table as
\* it was.
C13_EmptyInEmptyOut ==
    /\ (call.op = "predict" /\ call.X = PyList(<<>>)) => call.ret = PyList(<<>>)
    /\ (call.op = "generate_recommendations" /\ spending = <<>>) =>
           /\ call.status = 200
           /\ call.body = <<>>
           /\ recommendation = call.stored_before

\* generate_recommendations has answered on the empty store.
C13_Witness ==
    /\ call.op = "generate_recommendations"
    /\ spending = <<>>
    /\ call.status = 200
    /\ call.body = <<>>

VendorTotalCents(X, v) ==
    LET F[i \in 0..Len(X)] ==
            IF i = 0 THEN 0
            ELSE F[i - 1] + (IF X[i].vendor = v THEN CentsOf(X[i]) ELSE 0)
    IN  F[Len(X)]

\* The vendors of the batch X whose total spend is below 1000.00.
SmallVendors(X) ==
    {v \in {X[i].vendor : i \in 1..Len(X)} : VendorTotalCents(X, v) < 100000}

\* The sum of the totals of the small vendors, in cents.
SmallVendorCents(X) ==
    LET F[i \in 0..Len(X)] ==
            IF i = 0 THEN 0
            ELSE F[i - 1] + (IF X[i].vendor \in SmallVendors(X)
                             THEN CentsOf(X[i]) ELSE 0)
    IN  F[Len(X)]

\* C18: Rule C is decided on the whole transaction set: for a batch with
\* more than 3 small vendors the engine emits exactly one
\* vendor-consolidation recommendation, tied to no transaction, with
\* potential_savings = 0.10 x the sum of the small-vendor totals; for a
\* batch with at most 3 it emits none.
C18_VendorConsolidation ==
    (/\ call.op = "predict"
     /\ IsList(call.X)
     /\ IsList(call.ret)
     /\ \A i \in 1..Len(call.X.items) : IsWellFormed(call.X.items[i]))
    => LET X == call.X.items
           emitted == {i \in 1..Len(call.ret.items) :
                          IsKind(call.ret.items[i], "vendor_consolidation")}
       IN  IF Cardinality(SmallVendors(X)) > 3
           THEN /\ Cardinality(emitted) = 1
                /\ \A i \in emitted :
                       /\ Get(call.ret.items[i], "transaction_id", None) = None
                       /\ call.ret.items[i].potential_savings
                              = R(SmallVendorCents(X), 1000)
           ELSE emitted = {}

\* A confidence in [0, 1].
ValidConfidence(c) == RatGE(c, R(0, 1)) /\ RatLE(c, R(1, 1))

\* C19: an invalid configuration is rejected at the call boundary: an
\* endpoint called with min_confidence outside [0, 1] answers with a
\* validation error (422), returns no recommendation and leaves the store as
\* it was, and no recommender carries a confidence_threshold outside [0, 1].
C19_InvalidConfigurationRejected ==
    /\ (/\ call.op \in {"generate_recommendations", "get_recommendations"}
        /\ ~ValidConfidence(call.min_confidence))
       => /\ call.status = 422
          /\ call.body = <<>>
          /\ call.op = "generate_recommendations"
                 => recommendation = call.stored_before
    /\ ValidConfidence(recommender.confidence_threshold)

\* Every caller that has returned holds what predict returns for its
\* argument alone, and its argument is as it was handed in.
ReturnsAsAlone ==
    \A t \in Threads :
        threads[t].pc = "done" =>
            /\ threads[t].ret = predict(threads[t].arg)
            /\ threads[t].X = threads[t].arg

\* A step taken while caller t is inside its loop leaves the fields of the
\* recommender and the records of t's batch as they were.
TurnLeavesFieldsAndInput ==
    \A t \in Threads :
        (threads[t].pc = "loop" /\ threads'[t].pc = "loop") =>
            /\ recommender' = recommender
            /\ threads'[t].X = threads[t].X

\* C20: the engine holds no shared mutable state: a turn of predict leaves
\* the fields of the recommender (confidence_threshold, categories, vendors,
\* departments) and the input records unchanged, and every call, however
\* its turns interleave with those of the other callers of the same
\* instance, returns what predict returns for its argument alone.
C20_NoSharedMutableState ==
    /\ []ReturnsAsAlone
    /\ [][TurnLeavesFieldsAndInput]_vars

\* Both callers have returned, each from a batch of two, and each took a
\* turn while the other was inside its loop.
C20_Witness ==
    /\ \A t \in Threads :
           /\ threads[t].pc = "done"
           /\ threads[t].overlapped
           /\ IsList(threads[t].arg)
           /\ Len(threads[t].arg.items) = 2
    /\ threads[1].arg # threads[2].arg

\* The confidence predict_proba owes a record whose rule output is rec.
ConfidenceOf(rec) == IF rec = None THEN R(0, 1) ELSE rec.confidence_score

\* C23: for a list of n records predict_proba returns a list of n numbers in
\* [0, 1], in input order: 0.0 for a record that produced no recommendation
\* and the confidence_score of its recommendation otherwise.
C23_PredictProbaPerRecord ==
    (call.op = "predict_proba" /\ IsList(call.X)) =>
        /\ IsList(call.ret)
        /\ Len(call.ret.items) = Len(call.X.items)
        /\ \A i \in 1..Len(call.X.items) :
               /\ call.ret.items[i] = ConfidenceOf(call.recs[i])
               /\ ValidConfidence(call.ret.items[i])

C24_CreateReadRoundTrip ==
    /\ (call.op = "read_spendings" /\ call.spending_before = <<>>) =>
           call.status = 200 /\ call.body = <<>>
    /\ (call.op = "create_spending" /\ SpendingCreate_valid(call.spending_in)) =>
           /\ call.status = 201
           /\ \E i \in 1..Len(spending) :
                  /\ spending[i].id = call.id
                  /\ spending[i].amount = call.spending_in.amount
                  /\ spending[i].vendor = call.spending_in.vendor
                  /\ read_spending(spending, call.id).status = 200

\* A request naming an identifier no row of its table has.
SpendingIdMissing ==
    /\ call.op \in {"read_spending", "update_spending", "delete_spending"}
    /\ where_id(call.spending_before, call.id) = {}

RecommendationIdMissing ==
    /\ call.op \in {"update_recommendation", "delete_recommendation"}
    /\ where_id(call.recommendation_before, call.id) = {}

\* C26: reading, updating or deleting a spending record, and updating or
\* deleting a recommendation, under an identifier that is not stored answers
\* 404 and leaves both tables as they were.
C26_NotFoundLeavesStore ==
    (SpendingIdMissing \/ RecommendationIdMissing) =>
        /\ call.status = 404
        /\ spending = call.spending_before
        /\ recommendation = call.recommendation_before

\* A delete under a missing identifier while both tables hold rows.
C26_Witness ==
    /\ call.op = "delete_spending"
    /\ SpendingIdMissing
    /\ spending # <<>>
    /\ recommendation # <<>>

\* C28: every stored recommendation references a stored spending record, and
\* deleting a spending record that has recommendations answers 204 and
\* removes the record and its recommendations.
C28_ReferentialIntegrity ==
    /\ \A j \in 1..Len(recommendation) :
           where_id(spending, recommendation[j].spending_id) # {}
    /\ (/\ call.op = "delete_spending"
        /\ where_id(call.spending_before, call.id) # {}
        /\ \E j \in 1..Len(call.recommendation_before) :
               call.recommendation_before[j].spending_id = call.id) =>
           /\ call.status = 204
           /\ where_id(spending, call.id) = {}
           /\ \A j \in 1..Len(recommendation) :
                  recommendation[j].spending_id # call.id

====
